---- MODULE Spec2Model ----
(***************************************************************************)
(* fix_user_roles.py: a batch rewriter that, for each migration file of a  *)
(* fixed list, reads the file as text, substitutes every match of one      *)
(* regular expression by `public.is_admin()`, writes the text back and     *)
(* prints how many matches the original text had.                          *)
(*                                                                         *)
(* Text is a sequence of one-character strings.  The bytes of a file and   *)
(* the characters of a str are both such sequences: decoding and encoding  *)
(* with the one locale codec are inverse on every file that decodes, and a *)
(* file that does not decode raises (ReadFail).  What open() does beyond   *)
(* the codec, the newline translation of text mode, is modelled by         *)
(* TextRead and TextWrite.                                                 *)
(***************************************************************************)
EXTENDS Integers, Sequences, FiniteSets, TLC

\* ------------------------------------------------------------------ bounds
\* how many entries of files_to_fix a run iterates over
NumFiles == 3
\* how many parts an initial file content is concatenated from
MaxParts == 2
\* longest homogeneous whitespace run put in a gap of an occurrence
MaxGap == 1
\* how many times the script is run in succession
MaxRuns == 2

\* ------------------------------------------------------- the script's data
\* The token of the pattern that stands for the regex item \s*
WS == "\\s*"

\* line 7, item by item: a one-character string is a literal (the escapes
\* \( \) \. \' are the literals ( ) . '), WS is \s*.  The flags
\* re.MULTILINE | re.DOTALL change ^, $ and . only, and the pattern has none.
Lit1 == << "E", "X", "I", "S", "T", "S", " ", "(" >>

Lit2 == <<
    "S", "E", "L", "E", "C", "T", " ", "1", " ", "F", "R", "O", "M", " ",
    "u", "s", "e", "r", "_", "r", "o", "l", "e", "s" >>

Lit3 == <<
    "W", "H", "E", "R", "E", " ",
    "u", "s", "e", "r", "_", "i", "d", " ", "=", " ", "a", "u", "t", "h",
    ".", "u", "i", "d", "(", ")", " ", "A", "N", "D", " ", "r", "o", "l",
    "e", " ", "=", " ", "'", "a", "d", "m", "i", "n", "'" >>

Lit4 == << ")" >>

\* the pattern with a single literal space where line 7 has \s*
pattern_single_space ==
    Lit1 \o <<" ">> \o Lit2 \o <<" ">> \o Lit3 \o <<" ">> \o Lit4

pattern == Lit1 \o <<WS>> \o Lit2 \o <<WS>> \o Lit3 \o <<WS>> \o Lit4

replacement == <<
    "p", "u", "b", "l", "i", "c", ".", "i", "s", "_", "a", "d", "m", "i",
    "n", "(", ")" >>

migrations_dir == "supabase/migrations"

AllFiles == <<
    "20250807120000_create_performance_monitoring.sql",
    "20250808120000_create_batch_jobs_and_webhook_monitoring.sql",
    "20250808140000_create_migration_control_system.sql",
    "20250808150000_create_production_validation_system.sql",
    "20250808160000_create_global_optimization_system.sql",
    "20250808170000_create_security_hardening_system.sql",
    "20250808180000_create_connection_pooling_system.sql",
    "20250808190000_create_performance_optimization_system.sql" >>

\* the list the loop iterates over, cut to the first NumFiles entries
files_to_fix == SubSeq(AllFiles, 1, NumFiles)

\* os.path.join(migrations_dir, filename) on a relative filename
PathJoin(dir, name) == dir \o "/" \o name

\* --------------------------------------------------------------- the regex
\* what \s matches in a str pattern (ASCII part; \v is not writable here)
IsSpace(c) == c \in {" ", "\t", "\n", "\r", "\f"}

\* the end of the longest whitespace run starting at position i (i-1 if none)
RunEnd(s, i) ==
    (CHOOSE j \in i..(Len(s) + 1) :
        /\ j = Len(s) + 1 \/ ~IsSpace(s[j])
        /\ \A m \in i..(j - 1) : IsSpace(s[m])) - 1

\* the last item of the run of literals that starts at item k of pat
LitRunEnd(pat, k) ==
    CHOOSE j \in k..Len(pat) :
        /\ j = Len(pat) \/ pat[j + 1] = WS
        /\ \A m \in k..j : pat[m] # WS

\* Backtracking match of items k.. of pat against s from position i:
\* the position of the last character matched (i-1 for an empty match),
\* or -1 when there is no match.  A run of literals matches character by
\* character.  \s* is greedy: it takes the longest run first and gives
\* characters back one at a time.
RECURSIVE MatchFrom(_, _, _, _)
RECURSIVE StarFrom(_, _, _, _, _)
MatchFrom(pat, s, k, i) ==
    IF k > Len(pat) THEN i - 1
    ELSE IF pat[k] = WS THEN StarFrom(pat, s, k, i, RunEnd(s, i))
    ELSE IF i > Len(s) \/ s[i] # pat[k] THEN -1
    ELSE LET n == LitRunEnd(pat, k) - k + 1
         IN  IF /\ i + n - 1 <= Len(s)
                /\ \A j \in 1..(n - 1) : s[i + j] = pat[k + j]
             THEN MatchFrom(pat, s, k + n, i + n)
             ELSE -1

StarFrom(pat, s, k, i, e) ==
    IF e < i - 1 THEN -1
    ELSE LET r == MatchFrom(pat, s, k + 1, e + 1)
         IN  IF r # -1 THEN r ELSE StarFrom(pat, s, k, i, e - 1)

\* the end of the match of pat that starts at position i of s, or -1
MatchEnd(pat, s, i) == MatchFrom(pat, s, 1, i)

\* the positions of s at which some match of pat starts
MatchStarts(pat, s) == { i \in 1..Len(s) : MatchEnd(pat, s, i) # -1 }

\* the start of the leftmost match at or after position i, or 0
NextMatch(starts, i) ==
    IF \E j \in starts : j >= i
    THEN CHOOSE j \in starts : j >= i /\ \A m \in starts : m >= i => j <= m
    ELSE 0

\* re.sub(pattern, replacement, content): scan left to right, replace each
\* leftmost non-overlapping match, copy every other character
RECURSIVE SubFrom(_, _, _, _, _)
SubFrom(pat, repl, s, starts, i) ==
    LET j == NextMatch(starts, i)
    IN  IF j = 0 THEN SubSeq(s, i, Len(s))
        ELSE SubSeq(s, i, j - 1) \o repl
                 \o SubFrom(pat, repl, s, starts, MatchEnd(pat, s, j) + 1)

\* re.sub with count=1: only the leftmost match is replaced
ReSub_first(pat, repl, s) ==
    LET j == NextMatch(MatchStarts(pat, s), 1)
    IN  IF j = 0 THEN s
        ELSE SubSeq(s, 1, j - 1) \o repl
                 \o SubSeq(s, MatchEnd(pat, s, j) + 1, Len(s))

ReSub(pat, repl, s) == SubFrom(pat, repl, s, MatchStarts(pat, s), 1)

\* re.findall(pattern, content): the matched substrings, left to right,
\* non-overlapping
RECURSIVE FindFrom(_, _, _, _)
FindFrom(pat, s, starts, i) ==
    LET j == NextMatch(starts, i)
    IN  IF j = 0 THEN << >>
        ELSE LET e == MatchEnd(pat, s, j)
             IN  <<SubSeq(s, j, e)>> \o FindFrom(pat, s, starts, e + 1)

ReFindAll(pat, s) == FindFrom(pat, s, MatchStarts(pat, s), 1)

\* ------------------------------------------------------------ text-mode I/O
\* f.read() of open(path, 'r', newline=''): no translation
TextRead_raw(b) == b

\* f.read() of open(path, 'r'): universal newlines, \r\n and a lone \r
\* both become \n (the \n of a \r\n is dropped, every \r becomes \n)
TextRead(b) ==
    LET kept == SelectSeq([i \in 1..Len(b) |-> i],
                          LAMBDA i : ~(b[i] = "\n" /\ i > 1 /\ b[i - 1] = "\r"))
    IN  [k \in 1..Len(kept) |->
            IF b[kept[k]] = "\r" THEN "\n" ELSE b[kept[k]]]

\* f.write(s) of open(path, 'w'): every \n becomes os.linesep
RECURSIVE WriteRange(_, _, _, _)
WriteRange(s, sep, lo, hi) ==
    IF lo > hi THEN << >>
    ELSE IF lo = hi THEN (IF s[lo] = "\n" THEN sep ELSE <<s[lo]>>)
    ELSE LET mid == (lo + hi) \div 2
         IN  WriteRange(s, sep, lo, mid) \o WriteRange(s, sep, mid + 1, hi)

TextWrite(s, sep) == WriteRange(s, sep, 1, Len(s))

\* os.linesep of the platforms the script can run on
LineSeps == { <<"\n">>, <<"\r", "\n">> }

\* ------------------------------------------------------------ the file system
\* a file outside files_to_fix that lives in the same directory
OtherPath == PathJoin(migrations_dir, "00000000000000_initial_schema.sql")

FilePath(i) == PathJoin(migrations_dir, files_to_fix[i])

ListedPaths == { FilePath(i) : i \in 1..Len(files_to_fix) }

Paths == ListedPaths \cup {OtherPath}

Absent == [exists |-> FALSE, data |-> << >>]

File(b) == [exists |-> TRUE, data |-> b]

\* ------------------------------------------------------------------- state
VARIABLES
    disk,          \* path -> Absent or File(bytes)
    linesep,       \* os.linesep of the platform
    run,           \* which run of the script this is
    idx,           \* position of the for loop in files_to_fix
    pc,            \* "loop", "read", "write", "done", "failed"
    content,       \* the local content
    new_content,   \* the local new_content
    replacements,  \* the local replacements
    stdout,        \* the lines printed by this run
    iolog,         \* the file-system calls of this run, in order
    ioerror,       \* 0, or the position whose read or write raised
    disk0,         \* the disk when this run started
    prev           \* the disk and the output the previous run ended with

vars == << disk, linesep, run, idx, pc, content, new_content, replacements,
           stdout, iolog, ioerror, disk0, prev >>

locals == << content, new_content, replacements >>

\* ------------------------------------------------------------ console lines
FixingLine(filename) == "Fixing " \o filename \o "..."

MadeLine(n) == "  Made " \o ToString(n) \o " replacements"

NotFoundLine(filename) == "File not found: " \o filename

DoneLine == "Done!"

IoCall(op, path) == [op |-> op, path |-> path]

\* ------------------------------------------------------------------ inputs
\* the five tokens the fragment is made of, and the fragment with the
\* text g1..g4 in the four gaps between them
Tok1 == Lit1

Tok2 == Lit2

Tok3 == << "W", "H", "E", "R", "E" >>

Tok4 == SubSeq(Lit3, Len(Tok3) + 2, Len(Lit3))

Tok5 == Lit4

Occurrence(g1, g2, g3, g4) ==
    Tok1 \o g1 \o Tok2 \o g2 \o Tok3 \o g3 \o Tok4 \o g4 \o Tok5

Indent == << "\n", " ", " " >>

OccSL == Occurrence(<< >>, <<" ">>, <<" ">>, << >>)

OccML == Occurrence(Indent, Indent, <<" ">>, <<"\n">>)

CrLfLine == << "-", "-", "\r", "\n" >>

\* what follows `EXISTS (` in a single-line occurrence
OccTail == Tok2 \o <<" ">> \o Tok3 \o <<" ">> \o Tok4 \o Tok5

Parts == { OccML, replacement, CrLfLine, Tok1, OccTail }

RECURSIVE Concats(_)
Concats(n) ==
    IF n = 0 THEN { << >> }
    ELSE LET shorter == Concats(n - 1)
         IN  shorter \cup { p \o c : p \in Parts, c \in shorter }

ContentSet == Concats(MaxParts)

Embedded == CrLfLine \o OccML \o << ";", "\n" >>

RECURSIVE Repeat(_, _)
Repeat(c, n) == IF n = 0 THEN << >> ELSE <<c>> \o Repeat(c, n - 1)

GapSet ==
    { Repeat(c, n) : c \in {" ", "\n", "\t"}, n \in 0..MaxGap }
        \cup { << "\r", "\n" >> }

\* ----------------------------------------------------------------- actions
StartOfRun ==
    /\ idx = 1
    /\ pc = "loop"
    /\ content = << >>
    /\ new_content = << >>
    /\ replacements = 0
    /\ stdout = << >>
    /\ iolog = << >>
    /\ ioerror = 0

InitOn(disks) ==
    /\ linesep \in LineSeps
    /\ disk \in disks
    /\ run = 1
    /\ StartOfRun
    /\ disk0 = disk
    /\ prev = [disk |-> disk, stdout |-> << >>]

DiskOf(first, rest, other) ==
    [p \in Paths |->
        IF p = OtherPath THEN other
        ELSE IF p = FilePath(1) THEN first
        ELSE rest[CHOOSE i \in 2..NumFiles : FilePath(i) = p]]

\* the first file holds any content of ContentSet, the others little
Disks ==
    { DiskOf(first, rest, other) :
        first \in {Absent} \cup { File(c) : c \in ContentSet },
        rest \in [2..NumFiles -> {Absent, File(Embedded)}],
        other \in {File(OccSL)} }

Init == InitOn(Disks)

\* lines 43-44 with a break where the loop should go on
Examine_break ==
    /\ pc = "loop"
    /\ idx <= Len(files_to_fix)
    /\ LET filename == files_to_fix[idx]
           filepath == PathJoin(migrations_dir, filename)
       IN  /\ iolog' = Append(iolog, IoCall("exists", filepath))
           /\ IF disk[filepath].exists
              THEN /\ stdout' = Append(stdout, FixingLine(filename))
                   /\ pc' = "read"
                   /\ idx' = idx
              ELSE /\ stdout' = Append(stdout, NotFoundLine(filename))
                   /\ pc' = "loop"
                   /\ idx' = Len(files_to_fix) + 1
    /\ UNCHANGED << disk, linesep, run, locals, ioerror, disk0, prev >>

\* lines 43-44 without the print of the else branch
Examine_silent ==
    /\ pc = "loop"
    /\ idx <= Len(files_to_fix)
    /\ LET filename == files_to_fix[idx]
           filepath == PathJoin(migrations_dir, filename)
       IN  /\ iolog' = Append(iolog, IoCall("exists", filepath))
           /\ IF disk[filepath].exists
              THEN /\ stdout' = Append(stdout, FixingLine(filename))
                   /\ pc' = "read"
                   /\ idx' = idx
              ELSE /\ stdout' = stdout
                   /\ pc' = "loop"
                   /\ idx' = idx + 1
    /\ UNCHANGED << disk, linesep, run, locals, ioerror, disk0, prev >>

\* line 27 as a test that opens the path in append mode, which creates it
Examine_creates ==
    /\ pc = "loop"
    /\ idx <= Len(files_to_fix)
    /\ LET filename == files_to_fix[idx]
           filepath == PathJoin(migrations_dir, filename)
       IN  /\ iolog' = Append(iolog, IoCall("exists", filepath))
           /\ IF disk[filepath].exists
              THEN /\ stdout' = Append(stdout, FixingLine(filename))
                   /\ pc' = "read"
                   /\ idx' = idx
                   /\ disk' = disk
              ELSE /\ stdout' = Append(stdout, NotFoundLine(filename))
                   /\ pc' = "loop"
                   /\ idx' = idx + 1
                   /\ disk' = [disk EXCEPT ![filepath] = File(<< >>)]
    /\ UNCHANGED << linesep, run, locals, ioerror, disk0, prev >>

\* lines 25-28 and 43-44: the loop takes the next filename, joins the path,
\* asks whether it exists and prints the first line of the block
Examine ==
    /\ pc = "loop"
    /\ idx <= Len(files_to_fix)
    /\ LET filename == files_to_fix[idx]
           filepath == PathJoin(migrations_dir, filename)
       IN  /\ iolog' = Append(iolog, IoCall("exists", filepath))
           /\ IF disk[filepath].exists
              THEN /\ stdout' = Append(stdout, FixingLine(filename))
                   /\ pc' = "read"
                   /\ idx' = idx
              ELSE /\ stdout' = Append(stdout, NotFoundLine(filename))
                   /\ pc' = "loop"
                   /\ idx' = idx + 1
    /\ UNCHANGED << disk, linesep, run, locals, ioerror, disk0, prev >>

\* lines 34-37 with the count taken on new_content instead of content
ReadFile_countNew ==
    /\ pc = "read"
    /\ disk[FilePath(idx)].exists
    /\ iolog' = Append(iolog, IoCall("open_r", FilePath(idx)))
    /\ content' = TextRead(disk[FilePath(idx)].data)
    /\ new_content' = ReSub(pattern, replacement, content')
    /\ replacements' = Len(ReFindAll(pattern, new_content'))
    /\ pc' = "write"
    /\ UNCHANGED << disk, linesep, run, idx, stdout, ioerror, disk0, prev >>

\* lines 30-37: open for reading, read the whole text, substitute, then
\* count the matches of the text that was read
ReadFile ==
    /\ pc = "read"
    /\ disk[FilePath(idx)].exists
    /\ iolog' = Append(iolog, IoCall("open_r", FilePath(idx)))
    /\ content' = TextRead(disk[FilePath(idx)].data)
    /\ new_content' = ReSub(pattern, replacement, content')
    /\ replacements' = Len(ReFindAll(pattern, content'))
    /\ pc' = "write"
    /\ UNCHANGED << disk, linesep, run, idx, stdout, ioerror, disk0, prev >>

\* lines 30-31 raising inside a try whose handler goes on to the next entry
ReadFail_continue ==
    /\ pc = "read"
    /\ iolog' = Append(iolog, IoCall("open_r", FilePath(idx)))
    /\ ioerror' = idx
    /\ idx' = idx + 1
    /\ pc' = "loop"
    /\ UNCHANGED << disk, linesep, run, locals, stdout, disk0, prev >>

\* lines 30-31 raising (no permission, a directory, bytes that do not
\* decode): nothing catches it, the process ends with a traceback
ReadFail ==
    /\ pc = "read"
    /\ iolog' = Append(iolog, IoCall("open_r", FilePath(idx)))
    /\ ioerror' = idx
    /\ pc' = "failed"
    /\ UNCHANGED << disk, linesep, run, idx, locals, stdout, disk0, prev >>

\* lines 39-42: open for writing (truncate), write the new text, print the
\* count; the loop goes on to the next entry
WriteFile ==
    /\ pc = "write"
    /\ iolog' = Append(iolog, IoCall("open_w", FilePath(idx)))
    /\ disk' = [disk EXCEPT
                  ![FilePath(idx)] = File(TextWrite(new_content, linesep))]
    /\ stdout' = Append(stdout, MadeLine(replacements))
    /\ idx' = idx + 1
    /\ pc' = "loop"
    /\ UNCHANGED << linesep, run, locals, ioerror, disk0, prev >>

\* lines 39-40 raising: either open() fails and the file is as it was, or
\* the file was truncated and holds what reached it before the failure
\* (nothing, or a part: the first half stands for a partial flush)
WriteFail ==
    /\ pc = "write"
    /\ iolog' = Append(iolog, IoCall("open_w", FilePath(idx)))
    /\ LET bytes == TextWrite(new_content, linesep)
       IN  \/ disk' = disk
           \/ \E k \in {0, Len(bytes) \div 2} :
                disk' = [disk EXCEPT
                           ![FilePath(idx)] = File(SubSeq(bytes, 1, k))]
    /\ ioerror' = idx
    /\ pc' = "failed"
    /\ UNCHANGED << linesep, run, idx, locals, stdout, disk0, prev >>

\* line 46: the list is exhausted
Finish ==
    /\ pc = "loop"
    /\ idx > Len(files_to_fix)
    /\ stdout' = Append(stdout, DoneLine)
    /\ pc' = "done"
    /\ UNCHANGED << disk, linesep, run, idx, locals, iolog, ioerror,
                    disk0, prev >>

\* the script is started again on the directory the last run left
Rerun ==
    /\ pc = "done"
    /\ run < MaxRuns
    /\ run' = run + 1
    /\ prev' = [disk |-> disk, stdout |-> stdout]
    /\ disk0' = disk
    /\ idx' = 1
    /\ pc' = "loop"
    /\ content' = << >>
    /\ new_content' = << >>
    /\ replacements' = 0
    /\ stdout' = << >>
    /\ iolog' = << >>
    /\ ioerror' = 0
    /\ UNCHANGED << disk, linesep >>

Next ==
    \/ Examine
    \/ ReadFile
    \/ ReadFail
    \/ WriteFile
    \/ WriteFail
    \/ Finish
    \/ Rerun

Spec == Init /\ [][Next]_vars

\* the first file holds one fragment with any text of GapSet in each of
\* its four gaps, no other listed file is on disk
GapDisks ==
    { DiskOf(File(Occurrence(g1, g2, g3, g4)),
             [i \in 2..NumFiles |-> Absent], File(OccSL)) :
        g1 \in GapSet, g2 \in GapSet, g3 \in GapSet, g4 \in GapSet }

InitGaps == InitOn(GapDisks)

SpecGaps == InitGaps /\ [][Next]_vars

\* ------------------------------------------------- vocabulary of the claims
N == Len(files_to_fix)

Raw0(i) == disk0[FilePath(i)].data

Existed(i) == disk0[FilePath(i)].exists

Now(i) == disk[FilePath(i)].data

\* the number of occurrences of the pattern in a text
Count(text) == Len(ReFindAll(pattern, text))

\* the number of occurrences of the literal replacement string in a text
LitCount(text) ==
    Cardinality({ i \in 1..Len(text) :
        /\ text[i] = replacement[1]
        /\ i + Len(replacement) - 1 <= Len(text)
        /\ SubSeq(text, i, i + Len(replacement) - 1) = replacement })

\* entry i has been read, substituted and written back in this run
Written(i) == Existed(i) /\ idx > i

\* the line of stdout at which the block of entry i starts in a run that
\* prints two lines for a file that existed and one for a file that did not
RECURSIVE BlockStart(_)
BlockStart(i) ==
    IF i = 1 THEN 1
    ELSE BlockStart(i - 1) + (IF Existed(i - 1) THEN 2 ELSE 1)

\* the count reported for entry i
Reported(i, n) ==
    /\ BlockStart(i) + 1 <= Len(stdout)
    /\ stdout[BlockStart(i) + 1] = MadeLine(n)

Range(seq) == { seq[k] : k \in DOMAIN seq }

Printed(line) == line \in Range(stdout)

\* what the run makes of a file by itself
Expected(raw) == TextWrite(ReSub(pattern, replacement, TextRead(raw)), linesep)

\* ------------------------------------------------------------------ claims
\* C1: a listed file that existed with at least one occurrence of the
\* pattern holds, once written back, a content with no occurrence of it.
C1_NoPatternLeft ==
    \A i \in 1..N :
        (Written(i) /\ Count(Raw0(i)) >= 1) => Count(Now(i)) = 0

\* the first file had an occurrence right after a lone `EXISTS (`
C1_Witness ==
    /\ run = 1
    /\ Written(1)
    /\ Raw0(1) = Tok1 \o OccML
    /\ Now(1) = Tok1 \o replacement

\* C2: a second run in succession leaves every listed file as the first
\* run left it and reports 0 replacements for every listed file that exists.
C2_Idempotent ==
    (run >= 2 /\ pc = "done") =>
        \A i \in 1..N :
            /\ disk[FilePath(i)] = prev.disk[FilePath(i)]
            /\ disk[FilePath(i)].exists => Reported(i, 0)

\* the second run is over and the first had made two replacements in file 1
C2_Witness ==
    /\ run = 2
    /\ pc = "done"
    /\ Len(prev.stdout) >= 2
    /\ prev.stdout[2] = MadeLine(2)

\* C4 as stated: after processing, a file that had occurrences holds as
\* many `public.is_admin()` as the original had occurrences of the pattern,
\* and that number is the N of its `Made <N> replacements`.
C4_LiteralCountIsMatchCount ==
    \A i \in 1..N :
        Written(i) =>
            LET matches == Count(Raw0(i))
            IN  matches >= 1 =>
                    /\ LitCount(Now(i)) = matches
                    /\ Reported(i, matches)

\* C4 amended: the file holds as many `public.is_admin()` as the original
\* had occurrences of the pattern plus occurrences of that literal, and
\* the N reported is the number of occurrences of the pattern.
C4_LiteralCountGrowsByMatchCount ==
    \A i \in 1..N :
        Written(i) =>
            LET matches == Count(Raw0(i))
            IN  matches >= 1 =>
                    /\ LitCount(Now(i)) = LitCount(Raw0(i)) + matches
                    /\ Reported(i, matches)

\* the first file had the literal and an occurrence, and N was printed
C4_Witness ==
    /\ run = 1
    /\ Written(1)
    /\ LitCount(Raw0(1)) = 1
    /\ Count(Raw0(1)) = 1
    /\ LitCount(Now(1)) = 2

\* C5: a listed file that existed without any occurrence of the pattern
\* has, after processing, the content it had before, and 0 is reported.
C5_NoMatchUnchanged ==
    \A i \in 1..N :
        (Written(i) /\ Count(Raw0(i)) = 0) =>
            /\ Now(i) = Raw0(i)
            /\ Reported(i, 0)

\* C7: the rewritten content of a file with occurrences is the original
\* content with each matched substring replaced by `public.is_admin()` and
\* every character outside the matches kept, in order.
C7_OutsidePreserved ==
    \A i \in 1..N :
        (Written(i) /\ Count(Raw0(i)) >= 1) =>
            Now(i) = ReSub(pattern, replacement, Raw0(i))

\* C6: whatever subset of the list is absent, each absent file gives the
\* one line `File not found: <filename>` and no `Fixing` line, every other
\* listed file gets the content and the count it gets by itself, and the
\* run ends with `Done!`.
C6_AbsentSkipped ==
    pc = "done" =>
        /\ Len(stdout) = BlockStart(N + 1)
        /\ stdout[Len(stdout)] = DoneLine
        /\ \A i \in 1..N :
             IF Existed(i)
             THEN /\ stdout[BlockStart(i)] = FixingLine(files_to_fix[i])
                  /\ Reported(i, Count(TextRead(Raw0(i))))
                  /\ Now(i) = Expected(Raw0(i))
             ELSE /\ stdout[BlockStart(i)] = NotFoundLine(files_to_fix[i])
                  /\ ~Printed(FixingLine(files_to_fix[i]))

\* the first entry was absent, the second was rewritten, the run is over
C6_Witness ==
    /\ run = 1
    /\ pc = "done"
    /\ ~Existed(1)
    /\ Existed(2)
    /\ Now(2) # Raw0(2)
    /\ stdout[1] = NotFoundLine(files_to_fix[1])
    /\ stdout[3] = MadeLine(1)

\* C8: when the read or the write of the entry at position ioerror fails,
\* the process ends there: the entries before it that existed are
\* rewritten, the entries after it are neither read nor written, the last
\* line printed is the `Fixing` line of the failing entry, and there is no
\* `Done!`.
C8_FailStop ==
    ioerror # 0 =>
        /\ pc = "failed"
        /\ idx = ioerror
        /\ ~ENABLED Next
        /\ \A j \in 1..(idx - 1) : Existed(j) => Now(j) = Expected(Raw0(j))
        /\ \A j \in (idx + 1)..N :
             /\ disk[FilePath(j)] = disk0[FilePath(j)]
             /\ \A k \in DOMAIN iolog : iolog[k].path # FilePath(j)
        /\ Len(stdout) = BlockStart(idx)
        /\ stdout[Len(stdout)] = FixingLine(files_to_fix[idx])
        /\ ~Printed(DoneLine)

\* the second entry failed after the first was rewritten, the third exists
C8_Witness ==
    /\ ioerror = 2
    /\ Existed(1)
    /\ Now(1) # Raw0(1)
    /\ Existed(3)

\* the rank of a file-system call in the order list position, then
\* exists < open for reading < open for writing
PathIndex(path) == CHOOSE i \in 1..N : FilePath(i) = path

Rank(call) ==
    3 * PathIndex(call.path)
        + (CASE call.op = "exists" -> 0
             [] call.op = "open_r" -> 1
             [] call.op = "open_w" -> 2)

IsMadeLine(line) == \E n \in 0..(MaxParts + 1) : line = MadeLine(n)

\* lines k.. of stdout are the blocks of entries i.. and then `Done!`
RECURSIVE BlocksFrom(_, _)
BlocksFrom(k, i) ==
    IF i > N THEN k = Len(stdout) /\ stdout[k] = DoneLine
    ELSE \/ /\ k + 1 <= Len(stdout)
            /\ stdout[k] = FixingLine(files_to_fix[i])
            /\ IsMadeLine(stdout[k + 1])
            /\ BlocksFrom(k + 2, i + 1)
         \/ /\ k <= Len(stdout)
            /\ stdout[k] = NotFoundLine(files_to_fix[i])
            /\ BlocksFrom(k + 1, i + 1)

\* C9: the file-system calls are made in list order, the test, the read
\* and the write of an entry before any call on the next; and a run
\* without failure prints one block per entry, in list order, then one
\* `Done!`.
C9_ListOrder ==
    /\ \A k \in 1..(Len(iolog) - 1) : Rank(iolog[k]) < Rank(iolog[k + 1])
    /\ \A k \in DOMAIN iolog : iolog[k].path \in ListedPaths
    /\ (pc = "done" /\ ioerror = 0) =>
          /\ BlocksFrom(1, 1)
          /\ \A i \in 1..N :
                \/ ~Existed(i) /\ IoCall("exists", FilePath(i)) \in Range(iolog)
                \/ /\ Existed(i)
                   /\ IoCall("open_w", FilePath(i)) \in Range(iolog)

\* a run over a present, an absent and a present entry has ended
C9_Witness ==
    /\ pc = "done"
    /\ Existed(1)
    /\ ~Existed(2)
    /\ Existed(3)
    /\ Len(stdout) = 6
    /\ Len(iolog) = 7

\* C10: a run changes neither which files exist nor any file that is not
\* both listed and present: an absent listed file stays absent, no file
\* disappears, only listed files that were present are opened for writing.
C10_SameFiles ==
    /\ \A p \in Paths : disk[p].exists = disk0[p].exists
    /\ disk[OtherPath] = disk0[OtherPath]
    /\ \A k \in DOMAIN iolog :
          iolog[k].op = "open_w" =>
              iolog[k].path \in ListedPaths /\ disk0[iolog[k].path].exists

\* an absent entry was passed and a later one rewritten
C10_Witness ==
    /\ pc = "done"
    /\ ~Existed(1)
    /\ ~disk[FilePath(1)].exists
    /\ Existed(2)
    /\ Now(2) # Raw0(2)
    /\ disk[OtherPath] = File(OccSL)

\* a fragment whose four gaps hold whitespace runs of GapSet, none empty
SeparatedFragment(raw) ==
    \E g1 \in GapSet \ {<< >>}, g2 \in GapSet \ {<< >>},
       g3 \in GapSet \ {<< >>}, g4 \in GapSet \ {<< >>} :
        raw = Occurrence(g1, g2, g3, g4)

\* a fragment with any whitespace run of GapSet, or none, after `EXISTS (`,
\* before `WHERE` and before `)`, and one space after `WHERE`
OneSpaceFragment(raw) ==
    \E g1 \in GapSet, g2 \in GapSet, g4 \in GapSet :
        raw = Occurrence(g1, g2, <<" ">>, g4)

\* the file is rewritten as a file holding one single-line occurrence is
ReplacedAsSingleLine ==
    /\ Now(1) = replacement
    /\ Reported(1, 1)

====
